---------------------------- MODULE Spec2Model ----------------------------
(***************************************************************************)
(* Model of pyci/routines.py: the determinant selection routines           *)
(* add_seniorities and add_gkci (with _odometer_one_spin and               *)
(* _odometer_two_spin), and the solver drivers solve and solve_cepa0.      *)
(*                                                                         *)
(* Conventions.  Python sequences are 0-based, TLA+ sequences 1-based:     *)
(* At(s, i) reads Python's s[i].  Orbital indices and electron indices     *)
(* keep their 0-based values.  The real parameters t and p are exact       *)
(* fractions <<numerator, denominator>> with a positive denominator; a     *)
(* cost or a threshold is held as the integer (value * td * pd), so that   *)
(* the comparison qs < qs_neg of the source is an exact integer            *)
(* comparison (for the dyadic t, p and the small integer node costs drawn  *)
(* here the source's double arithmetic is exact as well).                  *)
(***************************************************************************)
EXTENDS Integers, Sequences, FiniteSets, TLC

VARIABLES
    pc,          \* position in the running call
    err,         \* "none", or the exception the call ended with
    kind,        \* class of wfn: "doci", "genci", "fullci", "other"
    nbasis,      \* wfn.nbasis
    nocc_up,     \* wfn.nocc_up
    nocc_dn,     \* wfn.nocc_dn
    added,       \* the buffers passed to wfn.add_occs, in call order
    t,           \* add_gkci: parameter t, <<num, den>>
    p,           \* add_gkci: parameter p, <<num, den>>
    mode,        \* add_gkci: [str, name, list]
    node_dim,    \* add_gkci: <<>> for None, <<d>> for d
    nodes,       \* add_gkci: node table
    new_occs,    \* odometer: candidate occupation (flat)
    old_occs,    \* odometer: occupation recorded at the last advancement
    j_electron,  \* odometer: electron being excited
    qs_neg,      \* one-spin threshold (scaled)
    q_up_neg,    \* two-spin thresholds (scaled)
    q_dn_neg,
    seniorities, \* add_seniorities: the requested seniorities
    occ_up_array,\* add_seniorities: spin-up occupations of the DOCI space
    occs,        \* add_seniorities: the (2, nocc_up) working buffer
    si,          \* add_seniorities: position in seniorities (0-based)
    ui,          \* add_seniorities: position in occ_up_array (0-based)
    ci,          \* add_seniorities: position in the outer combinations loop
    ai,          \* add_seniorities: position in the inner combinations loop
    fn,          \* solvers: "solve", "solve_cepa0", or "none"
    nargs,       \* solvers: len(args)
    dim,         \* solvers: op.shape[1]
    ecore,       \* solvers: op.ecore
    diag,        \* solvers: op.get_element(i, i) for each i
    n_eig,       \* solve: parameter n
    ncv,         \* solve: parameter ncv, <<>> for None
    maxiter,     \* solvers: parameter maxiter
    tol,         \* solvers: parameter tol
    c0,          \* solvers: the guess, <<>> for None, <<vector>> otherwise
    e0,          \* solve_cepa0: parameter e0, <<>> for None
    refind,      \* solve_cepa0: parameter refind
    lstsq,       \* solve_cepa0: parameter lstsq
    calls,       \* solvers: the scipy solver calls made, in order
    result,      \* solvers: what the scipy solver returned, <<>> before
    ret          \* solvers: what the call returned, <<>> before

vars == <<pc, err, kind, nbasis, nocc_up, nocc_dn, added, t, p, mode, node_dim,
          nodes, new_occs, old_occs, j_electron, qs_neg, q_up_neg, q_dn_neg,
          seniorities, occ_up_array, occs, si, ui, ci, ai,
          fn, nargs, dim, ecore, diag, n_eig, ncv, maxiter, tol, c0, e0,
          refind, lstsq, calls, result, ret>>

gkciVars == <<t, p, mode, node_dim, nodes, new_occs, old_occs, j_electron,
              qs_neg, q_up_neg, q_dn_neg>>

senVars == <<seniorities, occ_up_array, occs, si, ui, ci, ai>>

wfnVars == <<kind, nbasis, nocc_up, nocc_dn>>

\* the arguments of a solver call, which the call never rebinds
opVars == <<fn, nargs, dim, ecore, diag, n_eig, ncv, maxiter, tol, e0, refind,
            lstsq>>

solVars == <<opVars, c0, calls, result, ret>>

\* the variables of the solver drivers while a selection routine runs
NoSolverCall ==
    /\ fn = "none"
    /\ nargs = 0
    /\ dim = 0
    /\ ecore = 0
    /\ diag = <<>>
    /\ n_eig = 0
    /\ ncv = <<>>
    /\ maxiter = 0
    /\ tol = "none"
    /\ c0 = <<>>
    /\ e0 = <<>>
    /\ refind = 0
    /\ lstsq = FALSE
    /\ calls = <<>>
    /\ result = <<>>
    /\ ret = <<>>

(***************************************************************************)
(* Bounds of the model.                                                    *)
(***************************************************************************)
\* largest nbasis of an add_gkci call with a named mode
MaxBasis == 6

\* largest nbasis of an add_gkci call with an explicit node list
MaxTabBasis == 3

\* largest nbasis of an add_seniorities call
MaxSenBasis == 4

\* largest number of requested seniorities
MaxReq == 2

\* node costs of an explicit node list
NodeVals == {0, 1, 2}

\* values of t and of p, as <<numerator, denominator>>
TVals == {<<-3, 2>>, <<-1, 1>>, <<-1, 2>>, <<0, 1>>, <<1, 1>>}

PVals == {<<-1, 1>>, <<1, 1>>, <<3, 2>>}

Kinds == {"doci", "genci", "fullci", "other"}

ModeNames == {"cntsp", "gamma", "cubic", "other"}

(***************************************************************************)
(* Sequence helpers.                                                       *)
(***************************************************************************)
At(s, i) == s[i + 1]

Min(a, b) == IF a < b THEN a ELSE b

Max(a, b) == IF a < b THEN b ELSE a

Range(s) == {s[i] : i \in DOMAIN s}

\* Python's [v] * n
Repeat(v, n) == [i \in 1..n |-> v]

\* Python's s[:n] for n >= 0
Take(s, n) == SubSeq(s, 1, Min(Len(s), n))

\* Python's s[n:] for n >= 0
Drop(s, n) == SubSeq(s, n + 1, Len(s))

RECURSIVE SumSeq(_)
SumSeq(s) == IF s = <<>> THEN 0 ELSE s[1] + SumSeq(Tail(s))

RECURSIVE MaxSeq(_)
\* np.max of a non-empty array
MaxSeq(s) == IF Len(s) = 1 THEN s[1] ELSE Max(s[1], MaxSeq(Tail(s)))

\* all sequences over S of length n
SeqsOfLen(S, n) == [1..n -> S]

\* np.arange(n)
Arange(n) == [i \in 1..n |-> i - 1]


\* Python's s[:-1]
ButLast(s) == SubSeq(s, 1, Len(s) - 1)

\* whether the fancy index nodes[idx] is in range (no index is negative here)
CanGather(tbl, idx) == \A k \in DOMAIN idx : idx[k] < Len(tbl)

\* nodes[idx] for an index array idx
Gather(tbl, idx) == [k \in DOMAIN idx |-> At(tbl, idx[k])]

(***************************************************************************)
(* add_gkci: checks, node table, dispatch.                                 *)
(***************************************************************************)
RECURSIVE CntspNodesNegated(_, _, _)
\* variant: the shell cost with its sign turned (1 - shell)
CntspNodesNegated(nds, shell, nb) ==
    IF Len(nds) < nb
    THEN CntspNodesNegated(nds \o Repeat(1 - shell, shell * shell), shell + 1, nb)
    ELSE nds

RECURSIVE CntspNodesLinearShell(_, _, _)
\* variant: a shell of shell orbitals instead of shell ** 2
CntspNodesLinearShell(nds, shell, nb) ==
    IF Len(nds) < nb
    THEN CntspNodesLinearShell(nds \o Repeat(shell - 1, shell), shell + 1, nb)
    ELSE nds

RECURSIVE CntspNodes(_, _, _)
\* the while loop that extends nodes shell by shell
CntspNodes(nds, shell, nb) ==
    IF Len(nds) < nb
    THEN CntspNodes(nds \o Repeat(shell - 1, shell * shell), shell + 1, nb)
    ELSE nds

NamedMode(n) == [str |-> TRUE, name |-> n, list |-> <<>>]

ListMode(l) == [str |-> FALSE, name |-> "", list |-> l]

\* explicit node lists for a wave function of nb orbitals: one entry short,
\* exact, and one entry too long (cut by nodes[: wfn.nbasis])
ExplicitLists(nb) ==
    UNION {SeqsOfLen(NodeVals, n) : n \in (nb - 1)..(nb + 1)}

Raise(e) == pc' = "error" /\ err' = e

\* variant: a missing node_dim is not checked for mode 'gamma'
ArgCheckFailsForgetsGamma(m, nd) == m.str /\ m.name /= "gamma" /\ nd /= <<>>

\* the ValueError of the argument check, if any
ArgCheckFails(m, nd) ==
    /\ m.str
    /\ \/ m.name /= "gamma" /\ nd /= <<>>
       \/ m.name = "gamma" /\ nd = <<>>

GkciCheckArgs ==
    /\ pc = "check"
    /\ IF ArgCheckFails(mode, node_dim)
       THEN Raise("ValueError")
       ELSE pc' = "construct" /\ err' = err
    /\ UNCHANGED <<solVars, wfnVars, added, gkciVars, senVars>>

\* the exception raised while constructing the nodes of a named mode
ConstructError(m) ==
    IF ~m.str \/ m.name = "cntsp" THEN "none"
    ELSE IF m.name = "gamma" THEN "NotImplementedError"
    ELSE IF m.name = "cubic" THEN "NotImplementedError"
    ELSE "ValueError"

\* the table before nodes[: wfn.nbasis]
ConstructedNodes(m, nb) ==
    IF m.str THEN CntspNodes(<<>>, 1, nb) ELSE m.list

GkciConstructNodes ==
    /\ pc = "construct"
    /\ IF ConstructError(mode) /= "none"
       THEN Raise(ConstructError(mode)) /\ nodes' = nodes
       ELSE /\ nodes' = Take(ConstructedNodes(mode, nbasis), nbasis)
            /\ pc' = "dispatch"
            /\ err' = err
    /\ UNCHANGED <<solVars, wfnVars, added, t, p, mode, node_dim, new_occs, old_occs,
                   j_electron, qs_neg, q_up_neg, q_dn_neg, senVars>>

GkciDispatch ==
    /\ pc = "dispatch"
    /\ IF kind \in {"doci", "genci"}
       THEN pc' = "one_init" /\ err' = err
       ELSE IF kind = "fullci"
       THEN pc' = "two_init" /\ err' = err
       ELSE Raise("TypeError")
    /\ UNCHANGED <<solVars, wfnVars, added, gkciVars, senVars>>

(***************************************************************************)
(* Costs.  Scaled by td * pd (both positive).                              *)
(***************************************************************************)
\* np.sum(nodes_s) + t * np.max(nodes_s)
Qs(nodes_s, tt, pp) ==
    pp[2] * (tt[2] * SumSeq(nodes_s) + tt[1] * MaxSeq(nodes_s))

\* np.sum(nodes_s[:-1]) * p + (t + 1) * nodes[-1] * p
QsNeg(nodes_s, tbl, tt, pp) ==
    pp[1] * (tt[2] * SumSeq(ButLast(nodes_s)) + (tt[1] + tt[2]) * tbl[Len(tbl)])

(***************************************************************************)
(* _odometer_one_spin.                                                     *)
(***************************************************************************)
\* new_occs[wfn.nocc_up - 1] >= wfn.nbasis
OutOfBasis1(occ) == At(occ, nocc_up - 1) >= nbasis

\* variant: qs <= qs_neg
Accept1NotStrict(occ) == Qs(Gather(nodes, occ), t, p) <= qs_neg

\* qs < qs_neg
Accept1(occ) == Qs(Gather(nodes, occ), t, p) < qs_neg

\* variant: the later electrons are left where they were
Excite1NoReset(occ, j) ==
    [k \in DOMAIN occ |-> IF k - 1 = j THEN occ[k] + 1 ELSE occ[k]]

\* variant: an electron that is not the last one is not incremented, only
\* the electrons after it are reset
Excite1NoAdvance(occ, j) ==
    [k \in DOMAIN occ |->
        IF k - 1 < j THEN occ[k]
        ELSE IF k - 1 = j THEN (IF j = Len(occ) - 1 THEN occ[k] + 1 ELSE occ[k])
        ELSE At(occ, j) + (k - 1) - j]

\* new_occs[j] += 1, then the later electrons directly above it
Excite1(occ, j) ==
    [k \in DOMAIN occ |->
        IF k - 1 < j THEN occ[k]
        ELSE IF k - 1 = j THEN occ[k] + 1
        ELSE At(occ, j) + 1 + (k - 1) - j]

\* variant: the advancement point stays where it is
RejectJStays(j) == j

\* j_electron after a rejection
RejectJ(j) == j - 1

Odo1Init ==
    /\ pc = "one_init"
    /\ IF ~CanGather(nodes, Arange(nocc_up)) \/ nodes = <<>>
       THEN /\ Raise("IndexError")
            /\ UNCHANGED <<new_occs, old_occs, j_electron, qs_neg>>
       ELSE /\ new_occs' = Arange(nocc_up)
            /\ old_occs' = Arange(nocc_up)
            /\ j_electron' = nocc_up - 1
            /\ qs_neg' = QsNeg(Gather(nodes, Arange(nocc_up)), nodes, t, p)
            /\ pc' = "one_test"
            /\ err' = err
    /\ UNCHANGED <<solVars, wfnVars, added, t, p, mode, node_dim, nodes, q_up_neg,
                   q_dn_neg, senVars>>

\* the if / else at the head of the loop body
Odo1Test ==
    /\ pc = "one_test"
    /\ IF nocc_up = 0
       THEN Raise("IndexError") /\ UNCHANGED <<added, new_occs, j_electron>>
       ELSE IF OutOfBasis1(new_occs)
       THEN /\ new_occs' = old_occs
            /\ j_electron' = RejectJ(j_electron)
            /\ pc' = "one_step"
            /\ UNCHANGED <<added, err>>
       ELSE IF ~CanGather(nodes, new_occs)
       THEN Raise("IndexError") /\ UNCHANGED <<added, new_occs, j_electron>>
       ELSE IF Accept1(new_occs)
       THEN /\ added' = Append(added, new_occs)
            /\ j_electron' = nocc_up - 1
            /\ pc' = "one_step"
            /\ UNCHANGED <<new_occs, err>>
       ELSE /\ new_occs' = old_occs
            /\ j_electron' = RejectJ(j_electron)
            /\ pc' = "one_step"
            /\ UNCHANGED <<added, err>>
    /\ UNCHANGED <<solVars, wfnVars, t, p, mode, node_dim, nodes, old_occs, qs_neg,
                   q_up_neg, q_dn_neg, senVars>>

\* the break, or the advancement that ends the loop body
Odo1Step ==
    /\ pc = "one_step"
    /\ IF j_electron < 0
       THEN pc' = "done" /\ UNCHANGED <<new_occs, old_occs>>
       ELSE /\ old_occs' = new_occs
            /\ new_occs' = Excite1(new_occs, j_electron)
            /\ pc' = "one_test"
    /\ UNCHANGED <<solVars, wfnVars, err, added, t, p, mode, node_dim, nodes, j_electron,
                   qs_neg, q_up_neg, q_dn_neg, senVars>>

(***************************************************************************)
(* _odometer_two_spin.  new_occs is the flat buffer: the spin-up           *)
(* electrons at 0 .. nocc_up - 1, the spin-down electrons after them.      *)
(* new_occs.reshape(2, -1) is a view of that same buffer, so an insertion  *)
(* is recorded as the flat buffer; the reshape fails (ValueError) when the *)
(* number of electrons is odd.                                             *)
(***************************************************************************)
nocc == nocc_up + nocc_dn

\* new_occs[: wfn.nocc_up]
UpPart(occ) == Take(occ, nocc_up)

\* new_occs[wfn.nocc_up :]
DnPart(occ) == Drop(occ, nocc_up)

\* aufbau_occs, with its spin-down part shifted down by nocc_up
Aufbau2 ==
    [k \in 1..nocc |-> IF k - 1 < nocc_up THEN k - 1 ELSE k - 1 - nocc_up]

\* variant: only the last electron of the buffer is tested
OutOfBasis2LastOnly(occ) == At(occ, nocc - 1) >= nbasis

\* max(new_occs[nocc_up - 1], new_occs[nocc - 1]) >= nbasis
OutOfBasis2(occ) == Max(At(occ, nocc_up - 1), At(occ, nocc - 1)) >= nbasis

\* q_up < q_up_neg and q_dn < q_dn_neg
Accept2(occ) ==
    /\ Qs(Gather(nodes, UpPart(occ)), t, p) < q_up_neg
    /\ Qs(Gather(nodes, DnPart(occ)), t, p) < q_dn_neg

\* variant: every later electron is reset, whatever its channel
Excite2CrossesChannels(occ, j) ==
    [k \in DOMAIN occ |->
        IF k - 1 < j THEN occ[k]
        ELSE IF k - 1 = j THEN occ[k] + 1
        ELSE At(occ, j) + 1 + (k - 1) - j]

\* new_occs[j] += 1, then the later electrons of the same channel
Excite2(occ, j) ==
    [k \in DOMAIN occ |->
        IF k - 1 < j THEN occ[k]
        ELSE IF k - 1 = j THEN occ[k] + 1
        ELSE IF j < nocc_up
        THEN (IF k - 1 < nocc_up THEN At(occ, j) + 1 + (k - 1) - j ELSE occ[k])
        ELSE IF j < nocc - 1
        THEN At(occ, j) + 1 + (k - 1) - j
        ELSE occ[k]]

Odo2Init ==
    /\ pc = "two_init"
    /\ IF \/ ~CanGather(nodes, UpPart(Aufbau2))
          \/ ~CanGather(nodes, DnPart(Aufbau2))
          \/ nodes = <<>>
       THEN /\ Raise("IndexError")
            /\ UNCHANGED <<new_occs, old_occs, j_electron, q_up_neg, q_dn_neg>>
       ELSE /\ new_occs' = Aufbau2
            /\ old_occs' = Aufbau2
            /\ j_electron' = nocc - 1
            /\ q_up_neg' = QsNeg(Gather(nodes, UpPart(Aufbau2)), nodes, t, p)
            /\ q_dn_neg' = QsNeg(Gather(nodes, DnPart(Aufbau2)), nodes, t, p)
            /\ pc' = "two_test"
            /\ err' = err
    /\ UNCHANGED <<solVars, wfnVars, added, t, p, mode, node_dim, nodes, qs_neg, senVars>>

Odo2Test ==
    /\ pc = "two_test"
    /\ IF nocc = 0
       THEN Raise("IndexError") /\ UNCHANGED <<added, new_occs, j_electron>>
       ELSE IF OutOfBasis2(new_occs)
       THEN /\ new_occs' = old_occs
            /\ j_electron' = RejectJ(j_electron)
            /\ pc' = "two_step"
            /\ UNCHANGED <<added, err>>
       ELSE IF ~CanGather(nodes, new_occs)
       THEN Raise("IndexError") /\ UNCHANGED <<added, new_occs, j_electron>>
       ELSE IF nocc_dn = 0
       THEN \* np.max of the empty nodes_dn
            Raise("ValueError") /\ UNCHANGED <<added, new_occs, j_electron>>
       ELSE IF Accept2(new_occs)
       THEN IF nocc % 2 /= 0
            THEN \* new_occs.reshape(2, -1) of an odd number of entries
                 Raise("ValueError") /\ UNCHANGED <<added, new_occs, j_electron>>
            ELSE /\ added' = Append(added, new_occs)
                 /\ j_electron' = nocc - 1
                 /\ pc' = "two_step"
                 /\ UNCHANGED <<new_occs, err>>
       ELSE /\ new_occs' = old_occs
            /\ j_electron' = RejectJ(j_electron)
            /\ pc' = "two_step"
            /\ UNCHANGED <<added, err>>
    /\ UNCHANGED <<solVars, wfnVars, t, p, mode, node_dim, nodes, old_occs, qs_neg,
                   q_up_neg, q_dn_neg, senVars>>

Odo2Step ==
    /\ pc = "two_step"
    /\ IF j_electron < 0
       THEN pc' = "done" /\ UNCHANGED <<new_occs, old_occs>>
       ELSE /\ old_occs' = new_occs
            /\ new_occs' = Excite2(new_occs, j_electron)
            /\ pc' = "two_test"
    /\ UNCHANGED <<solVars, wfnVars, err, added, t, p, mode, node_dim, nodes, j_electron,
                   qs_neg, q_up_neg, q_dn_neg, senVars>>

(***************************************************************************)
(* A call of add_gkci.                                                     *)
(***************************************************************************)
\* wfn.nocc_dn of a wave function of the given class
DnChoices(k, up) ==
    IF k = "fullci" THEN 0..up ELSE IF k = "doci" THEN {up} ELSE {0}

GkciModes(nb) ==
    {NamedMode(n) : n \in ModeNames}
        \cup (IF nb <= MaxTabBasis
              THEN {ListMode(l) : l \in ExplicitLists(nb)}
              ELSE {})

InitGkci ==
    /\ pc = "check"
    /\ err = "none"
    /\ kind \in Kinds
    /\ nbasis \in 1..MaxBasis
    /\ nocc_up \in 0..nbasis
    /\ nocc_dn \in DnChoices(kind, nocc_up)
    /\ added = <<>>
    /\ t \in TVals
    /\ p \in PVals
    /\ mode \in GkciModes(nbasis)
    \* node_dim is read only when mode is a name
    /\ node_dim \in (IF mode.str THEN {<<>>, <<1>>} ELSE {<<>>})
    /\ nodes = <<>>
    /\ new_occs = <<>>
    /\ old_occs = <<>>
    /\ j_electron = 0
    /\ qs_neg = 0
    /\ q_up_neg = 0
    /\ q_dn_neg = 0
    /\ seniorities = <<>>
    /\ occ_up_array = <<>>
    /\ occs = <<>>
    /\ si = 0
    /\ ui = 0
    /\ ci = 0
    /\ ai = 0
    /\ NoSolverCall

NextGkci ==
    \/ GkciCheckArgs
    \/ GkciConstructNodes
    \/ GkciDispatch
    \/ Odo1Init
    \/ Odo1Test
    \/ Odo1Step
    \/ Odo2Init
    \/ Odo2Test
    \/ Odo2Step

SpecGkci == InitGkci /\ [][NextGkci]_vars

(***************************************************************************)
(* add_seniorities.                                                        *)
(***************************************************************************)
RECURSIVE Combinations(_, _)
\* itertools.combinations(s, r), in the order it yields them
Combinations(s, r) ==
    IF r = 0 THEN << <<>> >>
    ELSE IF Len(s) < r THEN << >>
    ELSE LET withFirst == Combinations(Tail(s), r - 1)
         IN  [i \in DOMAIN withFirst |-> <<s[1]>> \o withFirst[i]]
                \o Combinations(Tail(s), r)

\* sz_wfn.to_occ_array() after add_all_dets(): every nocc_up-subset of the
\* orbitals as a sorted row
AllDoci(nb, n) == Combinations(Arange(nb), n)

\* variant: the occupied orbitals are not taken out
VirsKeepsOccupied(nb, up) == Arange(nb)

\* np.setdiff1d(brange, occs_up, assume_unique=True)
Virs(nb, up) == SelectSeq(Arange(nb), LAMBDA x : x \notin Range(up))

smin == nocc_up - nocc_dn

nvir_up == nbasis - nocc_up

smax == Min(nocc_up, nvir_up)

\* variant: the parity of s is not looked at
InvalidSeniorityNoParity(s) == s < smin \/ s > smax

\* the condition inside any(...)
InvalidSeniority(s) == s < smin \/ s > smax \/ s % 2 /= smin % 2

\* variant: the pairs counted from the spin-up electrons alone
PairsFromUp(s) == (nocc_up - s) \div 2

\* (wfn.nocc - s) // 2
Pairs(s) == (nocc - s) \div 2

\* row[:n] = part, or row[a:b] = part
WriteRow(row, from, part) ==
    [k \in DOMAIN row |->
        IF k - 1 >= from /\ k - 1 < from + Len(part) THEN part[k - from]
        ELSE row[k]]

\* the seniority being handled, its spin-up row, and the loops' sources
CurS == At(seniorities, si)

CurUp == At(occ_up_array, ui)

\* the sequence the loop at pc = "sen_dn" runs over
OuterCombos ==
    IF Pairs(CurS) = nocc_dn THEN Combinations(CurUp, nocc_dn)
    ELSE IF Pairs(CurS) = 0 THEN Combinations(Virs(nbasis, CurUp), nocc_dn)
    ELSE Combinations(CurUp, Pairs(CurS))

\* the sequence the innermost loop of the mixed branch runs over
InnerCombos == Combinations(Virs(nbasis, CurUp), nocc_dn - Pairs(CurS))

\* what wfn.add_occs is handed: the buffer, tagged with the request it serves
Inserted(buf) == [req |-> si, occs |-> buf]

SenCheckWfn ==
    /\ pc = "sen_check_wfn"
    /\ IF kind /= "fullci"
       THEN Raise("TypeError")
       ELSE pc' = "sen_check_s" /\ err' = err
    /\ UNCHANGED <<solVars, wfnVars, added, gkciVars, senVars>>

SenCheckSeniorities ==
    /\ pc = "sen_check_s"
    /\ IF \E k \in DOMAIN seniorities : InvalidSeniority(seniorities[k])
       THEN Raise("ValueError")
       ELSE pc' = "sen_setup" /\ err' = err
    /\ UNCHANGED <<solVars, wfnVars, added, gkciVars, senVars>>

\* the seniority-zero occupation vectors and the working arrays; np.empty
\* leaves the buffer with whatever the memory held
SenSetup ==
    /\ pc = "sen_setup"
    /\ occ_up_array' = AllDoci(nbasis, nocc_up)
    /\ \E g \in {-1, 0} : occs' = <<Repeat(g, nocc_up), Repeat(g, nocc_up)>>
    /\ si' = 0
    /\ pc' = "sen_s"
    /\ UNCHANGED <<solVars, wfnVars, err, added, gkciVars, seniorities, ui, ci, ai>>

\* for s in seniorities
SenNextSeniority ==
    /\ pc = "sen_s"
    /\ IF si >= Len(seniorities)
       THEN pc' = "done" /\ ui' = ui
       ELSE pc' = "sen_up" /\ ui' = 0
    /\ UNCHANGED <<solVars, wfnVars, err, added, gkciVars, seniorities, occ_up_array,
                   occs, si, ci, ai>>

\* for occs_up in occ_up_array, in whichever branch s selects
SenNextUp ==
    /\ pc = "sen_up"
    /\ IF ui >= Len(occ_up_array)
       THEN /\ si' = si + 1
            /\ pc' = "sen_s"
            /\ UNCHANGED <<added, occs, ui, ci>>
       ELSE IF CurS = 0
       THEN /\ occs' = <<CurUp, CurUp>>
            /\ added' = Append(added, Inserted(occs'))
            /\ ui' = ui + 1
            /\ UNCHANGED <<pc, si, ci>>
       ELSE /\ occs' = <<CurUp, occs[2]>>
            /\ ci' = 0
            /\ pc' = "sen_dn"
            /\ UNCHANGED <<added, si, ui>>
    /\ UNCHANGED <<solVars, wfnVars, err, gkciVars, seniorities, occ_up_array, ai>>

\* the loop over combinations right inside the loop over occs_up
SenNextDn ==
    /\ pc = "sen_dn"
    /\ IF ci >= Len(OuterCombos)
       THEN /\ ui' = ui + 1
            /\ pc' = "sen_up"
            /\ UNCHANGED <<added, occs, ci, ai>>
       ELSE IF Pairs(CurS) = nocc_dn \/ Pairs(CurS) = 0
       THEN /\ occs' = <<occs[1], WriteRow(occs[2], 0, At(OuterCombos, ci))>>
            /\ added' = Append(added, Inserted(occs'))
            /\ ci' = ci + 1
            /\ UNCHANGED <<pc, ui, ai>>
       ELSE /\ occs' = <<occs[1], WriteRow(occs[2], 0, At(OuterCombos, ci))>>
            /\ ai' = 0
            /\ pc' = "sen_dn2"
            /\ UNCHANGED <<added, ui, ci>>
    /\ UNCHANGED <<solVars, wfnVars, err, gkciVars, seniorities, occ_up_array, si>>

\* the innermost loop of the mixed branch
SenNextDn2 ==
    /\ pc = "sen_dn2"
    /\ IF ai >= Len(InnerCombos)
       THEN /\ ci' = ci + 1
            /\ pc' = "sen_dn"
            /\ UNCHANGED <<added, occs, ai>>
       ELSE /\ occs' = <<occs[1],
                        WriteRow(occs[2], Pairs(CurS), At(InnerCombos, ai))>>
            /\ added' = Append(added, Inserted(occs'))
            /\ ai' = ai + 1
            /\ UNCHANGED <<pc, ci>>
    /\ UNCHANGED <<solVars, wfnVars, err, gkciVars, seniorities, occ_up_array, si, ui>>

\* the seniorities a caller may ask for: every value a determinant of the
\* wave function can have, and one beyond at each end
RequestVals(up, dn) == -1..(up + dn + 1)

Requests(up, dn) ==
    UNION {SeqsOfLen(RequestVals(up, dn), n) : n \in 0..MaxReq}

InitSen ==
    /\ pc = "sen_check_wfn"
    /\ err = "none"
    /\ kind \in Kinds
    /\ nbasis \in 1..MaxSenBasis
    /\ nocc_up \in 1..nbasis
    /\ nocc_dn \in 0..nocc_up
    /\ added = <<>>
    /\ seniorities \in Requests(nocc_up, nocc_dn)
    /\ occ_up_array = <<>>
    /\ occs = <<>>
    /\ si = 0
    /\ ui = 0
    /\ ci = 0
    /\ ai = 0
    /\ t = <<0, 1>>
    /\ p = <<1, 1>>
    /\ mode = NamedMode("cntsp")
    /\ node_dim = <<>>
    /\ nodes = <<>>
    /\ new_occs = <<>>
    /\ old_occs = <<>>
    /\ j_electron = 0
    /\ qs_neg = 0
    /\ q_up_neg = 0
    /\ q_dn_neg = 0
    /\ NoSolverCall

NextSen ==
    \/ SenCheckWfn
    \/ SenCheckSeniorities
    \/ SenSetup
    \/ SenNextSeniority
    \/ SenNextUp
    \/ SenNextDn
    \/ SenNextDn2

SpecSen == InitSen /\ [][NextSen]_vars

(***************************************************************************)
(* The solver drivers solve and solve_cepa0.  The operator op is known by  *)
(* its dimension, its core energy and its diagonal; the scipy solvers are  *)
(* external: a call is recorded with its keyword arguments, and what it    *)
(* returns (or that it raises) is chosen freely.  An entry of a            *)
(* coefficient vector of solve_cepa0 is a fraction <<num, den>>, den = 0   *)
(* standing for the inf or nan of a division by zero.                      *)
(***************************************************************************)
\* largest dimension of the operator
MaxDim == 2

\* entries of a caller's guess c0
CVals == {0, 2}

\* entries of the vector returned by a linear solver
XVals == {-1, 1}

\* eigenvalues and eigenvector entries returned by eigsh
EVals == {-1, 0}

VecVals == {0, 1}

\* the status returned by lgmres: 0 when the tolerance was reached
InfoVals == {0, 1}

MaxiterVals == {10, 5000}

TolVals == {"1e-12", "1e-06"}

\* the variables of the selection routines while a solver driver runs
NoSelectionCall ==
    /\ kind = "other"
    /\ nbasis = 1
    /\ nocc_up = 0
    /\ nocc_dn = 0
    /\ added = <<>>
    /\ t = <<0, 1>>
    /\ p = <<1, 1>>
    /\ mode = NamedMode("cntsp")
    /\ node_dim = <<>>
    /\ nodes = <<>>
    /\ new_occs = <<>>
    /\ old_occs = <<>>
    /\ j_electron = 0
    /\ qs_neg = 0
    /\ q_up_neg = 0
    /\ q_dn_neg = 0
    /\ seniorities = <<>>
    /\ occ_up_array = <<>>
    /\ occs = <<>>
    /\ si = 0
    /\ ui = 0
    /\ ci = 0
    /\ ai = 0

selVars == <<wfnVars, added, gkciVars, senVars>>

\* keyword parameters of scipy.sparse.linalg.lsqr and lgmres
LsqrParams ==
    {"damp", "atol", "btol", "conlim", "iter_lim", "show", "calc_var", "x0"}

LgmresParams ==
    {"x0", "tol", "maxiter", "M", "callback", "inner_m", "outer_k", "outer_v",
     "store_outer_Av", "prepend_outer_v", "atol"}

\* np.zeros(n)
Zeros(n) == [i \in 1..n |-> 0]

\* m.transpose() of a matrix of the given shape
Transpose(m, rows, cols) == [j \in 1..cols |-> [i \in 1..rows |-> m[i][j]]]

\* a + b on fractions; a non-finite operand gives a non-finite sum
FracAdd(a, b) ==
    IF b[2] = 0 THEN b
    ELSE IF a[2] = 0 THEN a
    ELSE <<a[1] * b[2] + b[1] * a[2], a[2] * b[2]>>

\* len(args) is neither 1 nor 2
BadArgs == nargs \notin {1, 2}

(***************************************************************************)
(* solve                                                                   *)
(***************************************************************************)
SolveArgs ==
    /\ pc = "solve_args"
    /\ IF BadArgs
       THEN Raise("ValueError")
       ELSE pc' = "solve_dim" /\ err' = err
    /\ UNCHANGED <<solVars, selVars>>

\* variant: the core energy is left out
TrivialEnergiesNoEcore == <<At(diag, 0)>>

\* np.full(1, op.get_element(0, 0) + op.ecore)
TrivialEnergies == <<At(diag, 0) + ecore>>

\* np.ones((1, 1))
TrivialCoeffs == << <<1>> >>

SolveDim ==
    /\ pc = "solve_dim"
    /\ IF dim = 1
       THEN /\ ret' = <<TrivialEnergies, TrivialCoeffs>>
            /\ pc' = "done"
       ELSE /\ pc' = "solve_guess"
            /\ ret' = ret
    /\ UNCHANGED <<opVars, c0, calls, result, err, selVars>>

\* c0 after "Prepare initial guess"
PaddedGuess ==
    IF c0 = <<>>
    THEN [i \in 1..dim |-> IF i = 1 THEN 1 ELSE 0]
    ELSE c0[1] \o Zeros(dim - Len(c0[1]))

SolveGuess ==
    /\ pc = "solve_guess"
    /\ IF c0 /= <<>> /\ Len(c0[1]) > dim
       THEN \* np.zeros of a negative length
            Raise("ValueError") /\ c0' = c0
       ELSE /\ c0' = <<PaddedGuess>>
            /\ pc' = "solve_eigsh"
            /\ err' = err
    /\ UNCHANGED <<opVars, calls, result, ret, selVars>>

\* the keyword arguments of the sp.eigsh call
EigshCall ==
    [solver |-> "eigsh",
     kwargs |-> [k |-> n_eig, v0 |-> c0[1], ncv |-> ncv, maxiter |-> maxiter,
                 tol |-> tol, which |-> "SA"]]

\* what eigsh may return: n_eig ascending eigenvalues and a (dim, n_eig)
\* matrix whose columns are the eigenvectors
EigshResults ==
    {[es |-> w, cs |-> v] :
        w \in {u \in SeqsOfLen(EVals, n_eig) :
                  \A i \in 1..(n_eig - 1) : u[i] <= u[i + 1]},
        v \in SeqsOfLen(SeqsOfLen(VecVals, n_eig), dim)}

SolveEigsh ==
    /\ pc = "solve_eigsh"
    /\ calls' = Append(calls, EigshCall)
    /\ \/ \* eigsh raises when the tolerance is not reached within maxiter
          /\ Raise("ArpackNoConvergence")
          /\ result' = result
       \/ /\ result' \in EigshResults
          /\ pc' = "solve_return"
          /\ err' = err
    /\ UNCHANGED <<opVars, c0, ret, selVars>>

SolveReturn ==
    /\ pc = "solve_return"
    /\ ret' = <<[i \in 1..n_eig |-> result.es[i] + ecore],
                Transpose(result.cs, dim, n_eig)>>
    /\ pc' = "done"
    /\ UNCHANGED <<opVars, c0, calls, result, err, selVars>>

(***************************************************************************)
(* solve_cepa0                                                             *)
(***************************************************************************)
CepaArgs ==
    /\ pc = "cepa_args"
    /\ IF BadArgs
       THEN Raise("ValueError")
       ELSE pc' = "cepa_guess" /\ err' = err
    /\ UNCHANGED <<solVars, selVars>>

\* op.get_element(refind, refind) if e0 is None else e0
ReferenceValue == IF e0 = <<>> THEN At(diag, refind) ELSE e0[1]

\* c0 after "Prepare initial guess": the caller's guess divided by its
\* reference entry (or zeros), with the reference entry then seeded
SeededGuess ==
    LET base == IF c0 = <<>>
                THEN [i \in 1..dim |-> <<0, 1>>]
                ELSE [i \in 1..dim |-> <<c0[1][i], At(c0[1], refind)>>]
    IN [base EXCEPT ![refind + 1] = <<ReferenceValue, 1>>]

CepaGuess ==
    /\ pc = "cepa_guess"
    /\ c0' = <<SeededGuess>>
    /\ pc' = "cepa_solve"
    /\ UNCHANGED <<opVars, calls, result, ret, err, selVars>>

\* the keyword arguments of the sp.lsqr and of the sp.lgmres call
LsqrCall ==
    [solver |-> "lsqr",
     kwargs |-> [iter_lime |-> maxiter, btol |-> tol, atol |-> tol]]

LgmresCall ==
    [solver |-> "lgmres",
     kwargs |-> [maxiter |-> maxiter, tol |-> tol, atol |-> tol]]

\* what a linear solver may return: a vector and a status
LinearResults == {[x |-> x, info |-> i] : x \in SeqsOfLen(XVals, dim), i \in InfoVals}

\* sp.<solver>(lhs, rhs, **kwargs): a keyword the solver does not have is a
\* TypeError, raised before the solver runs
CallLinearSolver(call, params) ==
    IF DOMAIN call.kwargs \subseteq params
    THEN /\ calls' = Append(calls, call)
         /\ result' \in LinearResults
         /\ pc' = "cepa_finish"
         /\ err' = err
    ELSE Raise("TypeError") /\ UNCHANGED <<calls, result>>

CepaSolve ==
    /\ pc = "cepa_solve"
    /\ IF lstsq
       THEN CallLinearSolver(LsqrCall, LsqrParams)
       ELSE CallLinearSolver(LgmresCall, LgmresParams)
    /\ UNCHANGED <<opVars, c0, ret, selVars>>

\* c = result[0]; c += c0
Combined ==
    [i \in 1..dim |-> FracAdd(<<result.x[i], 1>>, c0[1][i])]

\* variant: the reference entry is overwritten before the energy is read
FinalizeOverwritesFirst(c) ==
    LET c1 == [c EXCEPT ![refind + 1] = <<1, 1>>]
    IN <<<<FracAdd(At(c1, refind), <<ecore, 1>>)>>, <<c1>>>>

\* e = np.full(1, c[refind] + op.ecore); c[refind] = 1; return e, c[None, :]
Finalize(c) ==
    <<<<FracAdd(At(c, refind), <<ecore, 1>>)>>,
      <<[c EXCEPT ![refind + 1] = <<1, 1>>]>>>>

CepaFinish ==
    /\ pc = "cepa_finish"
    /\ ret' = Finalize(Combined)
    /\ pc' = "done"
    /\ UNCHANGED <<opVars, c0, calls, result, err, selVars>>

(***************************************************************************)
(* A call of solve or of solve_cepa0.                                      *)
(***************************************************************************)
\* the guesses a caller may pass for an operator of dimension d
SolveGuesses(d) ==
    {<<>>} \cup {<<v>> : v \in UNION {SeqsOfLen(CVals, n) : n \in (d - 1)..(d + 1)}}

CepaGuesses(d) == {<<>>} \cup {<<v>> : v \in SeqsOfLen(CVals, d)}

InitSolve ==
    /\ fn \in {"solve", "solve_cepa0"}
    /\ pc = (IF fn = "solve" THEN "solve_args" ELSE "cepa_args")
    /\ err = "none"
    /\ nargs \in 1..3
    /\ dim \in 1..MaxDim
    /\ ecore \in {0, 2}
    /\ diag \in SeqsOfLen({-1, 1}, dim)
    /\ maxiter \in MaxiterVals
    /\ tol \in TolVals
    /\ IF fn = "solve"
       THEN /\ n_eig \in 1..2
            /\ ncv \in {<<>>, <<4>>}
            /\ c0 \in SolveGuesses(dim)
            /\ e0 = <<>>
            /\ refind = 0
            /\ lstsq = FALSE
       ELSE /\ n_eig = 0
            /\ ncv = <<>>
            /\ c0 \in CepaGuesses(dim)
            /\ e0 \in {<<>>, <<3>>}
            /\ refind \in 0..(dim - 1)
            /\ lstsq \in BOOLEAN
    /\ calls = <<>>
    /\ result = <<>>
    /\ ret = <<>>
    /\ NoSelectionCall

NextSolve ==
    \/ SolveArgs
    \/ SolveDim
    \/ SolveGuess
    \/ SolveEigsh
    \/ SolveReturn
    \/ CepaArgs
    \/ CepaGuess
    \/ CepaSolve
    \/ CepaFinish

SpecSolve == InitSolve /\ [][NextSolve]_vars

(***************************************************************************)
(* Vocabulary of the properties of add_gkci.  The cost of a channel and    *)
(* its threshold are restated here from their definitions, on the same     *)
(* scale (td * pd) as the model's.                                         *)
(***************************************************************************)
OneSpin == kind \in {"doci", "genci"}

TwoSpin == kind = "fullci"

RECURSIVE CostSum(_, _)
\* sum of the node costs of the first n orbitals of occ
CostSum(occ, n) == IF n <= 0 THEN 0 ELSE At(nodes, occ[n]) + CostSum(occ, n - 1)

\* largest node cost among the orbitals of occ
CostMax(occ) ==
    CHOOSE m \in {At(nodes, occ[k]) : k \in DOMAIN occ} :
        \A k \in DOMAIN occ : At(nodes, occ[k]) <= m

\* (sum of node costs) + t * (largest node cost)
ChannelCost(occ) == p[2] * (t[2] * CostSum(occ, Len(occ)) + t[1] * CostMax(occ))

\* p * (sum over the aufbau electrons but the last) + (t + 1) * p * nodes[-1]
ChannelThreshold(n) ==
    p[1] * (t[2] * CostSum(Arange(n), n - 1) + (t[1] + t[2]) * nodes[Len(nodes)])

BelowThreshold(occ) == ChannelCost(occ) < ChannelThreshold(Len(occ))

\* a < b in the lexicographic order of equally long vectors
LexLess(a, b) ==
    \E k \in DOMAIN a :
        /\ a[k] < b[k]
        /\ \A i \in 1..(k - 1) : a[i] = b[i]

NonDecreasing(s) == \A i \in 1..(Len(s) - 1) : s[i] <= s[i + 1]

StrictlyIncreasing(s) == \A i \in 1..(Len(s) - 1) : s[i] < s[i + 1]

\* the strictly increasing n-element occupations over [0, nb)
Occupations(nb, n) ==
    {s \in [1..n -> 0..(nb - 1)] : StrictlyIncreasing(s)}

\* t >= -1
TAtLeastMinusOne == t[1] >= -t[2]

\* the table is a non-decreasing table of nbasis entries
MonotoneTable == Len(nodes) = nbasis /\ NonDecreasing(nodes)

\* C1: every determinant passed to wfn.add_occs by either odometer has, in
\* each spin channel, a cost strictly below that channel's threshold, and the
\* thresholds held during the loop are the ones computed from the aufbau
\* occupation before it.
C1_InsertedBelowThreshold ==
    /\ (OneSpin /\ pc \in {"one_test", "one_step"})
          => qs_neg = ChannelThreshold(nocc_up)
    /\ (TwoSpin /\ pc \in {"two_test", "two_step"})
          => /\ q_up_neg = ChannelThreshold(nocc_up)
             /\ q_dn_neg = ChannelThreshold(nocc_dn)
    /\ OneSpin => \A i \in DOMAIN added : BelowThreshold(added[i])
    /\ TwoSpin => \A i \in DOMAIN added :
                     /\ BelowThreshold(UpPart(added[i]))
                     /\ BelowThreshold(DnPart(added[i]))

\* a two-spin run on a table that is not constant has inserted several
\* determinants and come to its end
C1_Witness ==
    /\ TwoSpin
    /\ pc = "done"
    /\ Len(added) >= 3
    /\ \E i, k \in DOMAIN nodes : nodes[i] /= nodes[k]
    /\ Len(added) < Cardinality(Occupations(nbasis, nocc_up))
                      * Cardinality(Occupations(nbasis, nocc_dn))

\* C2: when the one-spin loop stops (1 <= nocc_up <= nbasis, non-decreasing
\* table of nbasis entries, t >= -1), the inserted determinants are exactly
\* the occupations whose cost is strictly below the threshold.
C2_OneSpinExact ==
    (/\ pc = "done"
     /\ OneSpin
     /\ nocc_up >= 1
     /\ MonotoneTable
     /\ TAtLeastMinusOne)
        => Range(added) = {o \in Occupations(nbasis, nocc_up) : BelowThreshold(o)}

\* a finished one-spin run that has pruned some occupations and has found
\* others after backtracking to an earlier electron
C2_Witness ==
    /\ pc = "done"
    /\ OneSpin
    /\ nocc_up >= 2
    /\ MonotoneTable
    /\ TAtLeastMinusOne
    /\ \E i \in DOMAIN added : added[i][1] > 0
    /\ \E o \in Occupations(nbasis, nocc_up) : o \notin Range(added)

\* C3 (as stated): when the two-spin loop stops (nocc_up = nocc_dn >= 1,
\* non-decreasing table of nbasis entries, t >= -1), every determinant whose
\* two channel costs are below their thresholds has been inserted.
C3_TwoSpinNoOmission ==
    (/\ pc = "done"
     /\ TwoSpin
     /\ nocc_up = nocc_dn
     /\ nocc_up >= 1
     /\ MonotoneTable
     /\ TAtLeastMinusOne)
        => \A u \in Occupations(nbasis, nocc_up) :
             \A d \in Occupations(nbasis, nocc_dn) :
                (BelowThreshold(u) /\ BelowThreshold(d)) => (u \o d) \in Range(added)

\* C4: no occupation is inserted twice: the inserted flat vectors are
\* strictly increasing in the lexicographic order, and a candidate about to
\* be tested is never one already inserted.
C4_NoDuplicates ==
    /\ \A i \in 1..(Len(added) - 1) : LexLess(added[i], added[i + 1])
    /\ \A i, k \in DOMAIN added : i /= k => added[i] /= added[k]
    /\ pc \in {"one_test", "two_test"} => new_occs \notin Range(added)

\* a candidate produced after a rollback to an earlier electron is about to
\* be tested, several determinants having been inserted
C4_Witness ==
    /\ pc = "two_test"
    /\ j_electron < nocc_up
    /\ nocc_dn >= 1
    /\ Len(added) >= 3

CntspMode == mode = NamedMode("cntsp")

\* C5 (as stated): in the one-spin odometer with a cntsp table, the costs of
\* the determinants are non-decreasing in insertion order, for every t and p.
C5_CostOrdered ==
    (OneSpin /\ CntspMode)
        => \A i \in 1..(Len(added) - 1) :
              ChannelCost(added[i]) <= ChannelCost(added[i + 1])

\* C5 (amended): in the one-spin odometer with a cntsp table and t >= -1, two
\* determinants inserted consecutively with no rejection between them (the
\* later one is the earlier one with its last electron advanced) have
\* non-decreasing cost.
C5_CostOrderedWithinRun ==
    (OneSpin /\ CntspMode /\ TAtLeastMinusOne)
        => \A i \in 1..(Len(added) - 1) :
              ButLast(added[i]) = ButLast(added[i + 1])
                 => ChannelCost(added[i]) <= ChannelCost(added[i + 1])

\* two determinants inserted one right after the other by advancing the last
\* electron into a costlier shell
C5_Witness ==
    /\ OneSpin
    /\ CntspMode
    /\ TAtLeastMinusOne
    /\ \E i \in 1..(Len(added) - 1) :
          /\ ButLast(added[i]) = ButLast(added[i + 1])
          /\ ChannelCost(added[i]) < ChannelCost(added[i + 1])

\* the call has not got past the argument check and the node construction
BeforeOdometer == pc \in {"check", "construct", "error"}

\* C10: for a named mode, the outcome by (mode, node_dim): 'gamma' without
\* node_dim and any other name with a node_dim end in ValueError; 'gamma'
\* with a node_dim and 'cubic' without one end in NotImplementedError; an
\* unknown name without node_dim ends in ValueError; only 'cntsp' without
\* node_dim gets further.  In the error cases nothing was inserted and no
\* odometer state was set up.
C10_ModeErrors ==
    mode.str =>
        /\ ((mode.name = "gamma" /\ node_dim = <<>>)
              \/ (mode.name /= "gamma" /\ node_dim /= <<>>))
             => /\ pc \in {"check", "error"}
                /\ pc = "error" => err = "ValueError"
        /\ ((mode.name = "gamma" /\ node_dim /= <<>>)
              \/ (mode.name = "cubic" /\ node_dim = <<>>))
             => /\ BeforeOdometer
                /\ pc = "error" => err = "NotImplementedError"
        /\ (mode.name \notin {"cntsp", "gamma", "cubic"} /\ node_dim = <<>>)
             => /\ BeforeOdometer
                /\ pc = "error" => err = "ValueError"
        /\ ~BeforeOdometer => (mode.name = "cntsp" /\ node_dim = <<>>)
        /\ ~(mode.name = "cntsp" /\ node_dim = <<>>)
             => added = <<>> /\ new_occs = <<>> /\ nodes = <<>>

\* mode 'gamma' without node_dim has been refused
C10_Witness ==
    /\ mode.str
    /\ mode.name = "gamma"
    /\ node_dim = <<>>
    /\ pc = "error"
    /\ err = "ValueError"
    /\ added = <<>>

(***************************************************************************)
(* Vocabulary of the properties of add_seniorities.                        *)
(***************************************************************************)
\* the spin-up orbitals of an inserted buffer, and its spin-down orbitals
\* (the first nocc_dn entries of the second row)
UpSet(buf) == Range(buf[1])

DnSet(buf) == Range(Take(buf[2], nocc_dn))

\* the determinant of an inserted buffer
Det(buf) == <<UpSet(buf), DnSet(buf)>>

\* number of singly-occupied orbitals
SinglyOccupied(buf) ==
    Cardinality((UpSet(buf) \ DnSet(buf)) \cup (DnSet(buf) \ UpSet(buf)))

DoublyOccupied(buf) == Cardinality(UpSet(buf) \cap DnSet(buf))

\* s passes the up-front check
LegalSeniority(s) ==
    /\ s >= nocc_up - nocc_dn
    /\ s <= nocc_up
    /\ s <= nbasis - nocc_up
    /\ (s - (nocc_up - nocc_dn)) % 2 = 0

\* the seniority of request r (0-based)
Requested(r) == seniorities[r + 1]

\* the insertions made for request r, in order
InsertedFor(r) == SelectSeq(added, LAMBDA a : a.req = r)

RECURSIVE Binomial(_, _)
Binomial(n, k) ==
    IF k < 0 \/ k > n THEN 0
    ELSE IF k = 0 THEN 1
    ELSE (n * Binomial(n - 1, k - 1)) \div k

\* every determinant of the wave function's space
FullSpace ==
    {<<U, D>> : U \in {X \in SUBSET (0..(nbasis - 1)) : Cardinality(X) = nocc_up},
                D \in {X \in SUBSET (0..(nbasis - 1)) : Cardinality(X) = nocc_dn}}

\* C6: every determinant inserted while handling a requested seniority s has
\* exactly s singly-occupied orbitals and (nocc - s) / 2 doubly-occupied ones.
C6_SeniorityExact ==
    \A i \in DOMAIN added :
        LET s == Requested(added[i].req)
        IN  /\ SinglyOccupied(added[i].occs) = s
            /\ 2 * DoublyOccupied(added[i].occs) = nocc - s

\* a determinant of the mixed branch (some, not all, spin-down electrons
\* paired) has been inserted
C6_Witness ==
    \E i \in DOMAIN added :
        LET s == Requested(added[i].req)
        IN  /\ s > 0
            /\ nocc - s > 0
            /\ nocc - s < 2 * nocc_dn
            /\ SinglyOccupied(added[i].occs) = s

\* C7 (as stated): a call with the list of all legal seniorities inserts
\* every determinant of the full space exactly once.
C7_SeniorityCover ==
    (/\ pc = "done"
     /\ Range(seniorities) = {s \in RequestVals(nocc_up, nocc_dn) : LegalSeniority(s)}
     /\ Cardinality(Range(seniorities)) = Len(seniorities))
        => /\ {Det(added[i].occs) : i \in DOMAIN added} = FullSpace
           /\ \A i, k \in DOMAIN added :
                 i /= k => Det(added[i].occs) /= Det(added[k].occs)

\* C8: the determinants inserted for one request are pairwise distinct, and
\* once the request is through their number is
\* C(nbasis, nocc_up) * C(nocc_up, pairs) * C(nbasis - nocc_up, nocc_dn - pairs);
\* for s = 0 these are C(nbasis, nocc_up) determinants with equal rows.
C8_CountPerRequest ==
    /\ \A i, k \in DOMAIN added :
          (i /= k /\ added[i].req = added[k].req)
             => Det(added[i].occs) /= Det(added[k].occs)
    /\ pc \in {"sen_s", "sen_up", "sen_dn", "sen_dn2", "done"}
          => \A r \in 0..(si - 1) :
                LET s == Requested(r)
                    pairs == (nocc - s) \div 2
                IN  /\ Len(InsertedFor(r))
                          = Binomial(nbasis, nocc_up) * Binomial(nocc_up, pairs)
                              * Binomial(nbasis - nocc_up, nocc_dn - pairs)
                    /\ s = 0 =>
                          /\ Len(InsertedFor(r)) = Binomial(nbasis, nocc_up)
                          /\ \A i \in DOMAIN added :
                                added[i].req = r => added[i].occs[1] = added[i].occs[2]

\* a request of the mixed branch and a request for seniority zero are both
\* through, with several determinants each
C8_Witness ==
    /\ pc = "done"
    /\ si = 2
    /\ Requested(0) > 0
    /\ nocc - Requested(0) > 0
    /\ nocc - Requested(0) < 2 * nocc_dn
    /\ Requested(1) = 0
    /\ Len(InsertedFor(0)) > Len(InsertedFor(1))
    /\ Len(InsertedFor(1)) > 1

\* C9: with a wave function that is not a fullci one, or with any requested
\* seniority that is out of bounds or of the wrong parity, the call never
\* gets past its checks, ends in TypeError resp. ValueError, and inserts
\* nothing.
C9_ValidatedUpFront ==
    (kind /= "fullci" \/ \E k \in DOMAIN seniorities : ~LegalSeniority(seniorities[k]))
        => /\ pc \in {"sen_check_wfn", "sen_check_s", "error"}
           /\ added = <<>>
           /\ pc = "error" =>
                 err = (IF kind /= "fullci" THEN "TypeError" ELSE "ValueError")

\* a request whose second seniority is the invalid one has been refused
C9_Witness ==
    /\ kind = "fullci"
    /\ Len(seniorities) = 2
    /\ LegalSeniority(seniorities[1])
    /\ ~LegalSeniority(seniorities[2])
    /\ pc = "error"
    /\ err = "ValueError"
    /\ added = <<>>

(***************************************************************************)
(* Further properties of add_gkci.                                         *)
(***************************************************************************)
\* C11 (as stated): a call of add_gkci that ends in an error has inserted
\* nothing.
C11_FailedCallInsertsNothing == pc = "error" => added = <<>>

\* every orbital index of occ is an orbital of the wave function
InBasis(occ) == \A k \in DOMAIN occ : occ[k] >= 0 /\ occ[k] < nbasis

\* C16: at every acceptance test the candidate is strictly increasing within
\* each channel, so the test of the last electron of each channel against
\* nbasis decides whether any index is out of the basis; a candidate that
\* passes it indexes a table of nbasis entries in range, and so does every
\* inserted determinant.
C16_CandidateWellFormed ==
    /\ (pc = "one_test" /\ nocc_up >= 1)
          => /\ StrictlyIncreasing(new_occs)
             /\ OutOfBasis1(new_occs) <=> ~InBasis(new_occs)
             /\ (~OutOfBasis1(new_occs) /\ Len(nodes) = nbasis)
                   => \A k \in DOMAIN new_occs : new_occs[k] + 1 \in DOMAIN nodes
    /\ (pc = "two_test" /\ nocc_dn >= 1)
          => /\ StrictlyIncreasing(UpPart(new_occs))
             /\ StrictlyIncreasing(DnPart(new_occs))
             /\ OutOfBasis2(new_occs) <=> ~InBasis(new_occs)
             /\ (~OutOfBasis2(new_occs) /\ Len(nodes) = nbasis)
                   => \A k \in DOMAIN new_occs : new_occs[k] + 1 \in DOMAIN nodes
    /\ (OneSpin \/ TwoSpin) => \A i \in DOMAIN added : InBasis(added[i])

\* a two-spin candidate whose spin-up channel has run out of the basis while
\* its earlier spin-up electron is still inside is about to be rejected
C16_Witness ==
    /\ pc = "two_test"
    /\ nocc_up >= 2
    /\ nocc_dn >= 1
    /\ At(new_occs, nocc_up - 1) = nbasis
    /\ At(new_occs, 0) < nbasis
    /\ Len(added) >= 1

RECURSIVE SumOfSquares(_)
\* 1^2 + 2^2 + ... + k^2
SumOfSquares(k) == IF k = 0 THEN 0 ELSE k * k + SumOfSquares(k - 1)

\* the smallest positive k with 1^2 + ... + k^2 > i
ShellOf(i) ==
    CHOOSE k \in 1..(i + 1) :
        /\ SumOfSquares(k) > i
        /\ \A m \in 1..(k - 1) : SumOfSquares(m) <= i

\* C18: the cntsp table has exactly nbasis entries, the entry of orbital i
\* being ShellOf(i) - 1; it is non-decreasing and starts with 0.
C18_CntspTable ==
    (CntspMode /\ node_dim = <<>> /\ pc \notin {"check", "construct"})
        => /\ Len(nodes) = nbasis
           /\ \A i \in 0..(nbasis - 1) : At(nodes, i) = ShellOf(i) - 1
           /\ NonDecreasing(nodes)
           /\ nodes[1] = 0

\* a table that reaches into the third shell has been built
C18_Witness ==
    /\ CntspMode
    /\ pc = "dispatch"
    /\ nbasis = 6
    /\ nodes = <<0, 1, 1, 1, 1, 2>>

\* C20: advancing electron j_electron in the two-spin odometer leaves every
\* entry before j_electron unchanged; advancing a spin-up electron leaves
\* every spin-down entry unchanged as well.
C20_AdvanceFrame ==
    [][(pc = "two_step" /\ pc' = "two_test")
          => /\ Len(new_occs') = Len(new_occs)
             /\ \A k \in DOMAIN new_occs :
                   /\ k - 1 < j_electron => new_occs'[k] = new_occs[k]
                   /\ (j_electron < nocc_up /\ k - 1 >= nocc_up)
                         => new_occs'[k] = new_occs[k]
             /\ At(new_occs', j_electron) = At(new_occs, j_electron) + 1]_vars

\* a spin-up electron other than the last has just been advanced while the
\* spin-down channel stays away from its lowest occupation
C20_Witness ==
    /\ pc = "two_test"
    /\ j_electron < nocc_up - 1
    /\ UpPart(new_occs) /= UpPart(old_occs)
    /\ DnPart(new_occs) = DnPart(old_occs)
    /\ DnPart(new_occs) /= DnPart(Aufbau2)

(***************************************************************************)
(* Termination of the odometer.  The loop is sequential code: a step that  *)
(* is enabled is eventually taken.                                         *)
(***************************************************************************)
SpecGkciFair == SpecGkci /\ WF_vars(NextGkci)

\* the number of electrons the odometer moves
ElectronCount == IF TwoSpin THEN nocc_up + nocc_dn ELSE nocc_up

\* the odometer runs on at least one electron, with a cost table of nbasis
\* entries, and in the two-spin case with as many spin-down as spin-up
\* electrons
OdometerRuns ==
    /\ Len(nodes) = nbasis
    /\ nocc_up >= 1
    /\ \/ OneSpin /\ pc \in {"one_init", "one_test", "one_step"}
       \/ TwoSpin /\ nocc_up = nocc_dn
                  /\ pc \in {"two_init", "two_test", "two_step"}

\* the odometer is between its acceptance test and its termination test
InLoop == pc \in {"one_test", "one_step", "two_test", "two_step"}

\* no more acceptances than there are determinants
AcceptanceBound ==
    IF TwoSpin
    THEN Binomial(nbasis, nocc_up) * Binomial(nbasis, nocc_dn)
    ELSE Binomial(nbasis, nocc_up)

\* C15: the odometer loop stops with j_electron < 0 after finitely many
\* iterations; j_electron stays in [-1, nocc - 1], a rejection decrements it
\* by exactly one, an acceptance resets it to the last electron's index, and
\* the number of acceptances is bounded.
C15_OdometerTerminates ==
    /\ []((OdometerRuns /\ InLoop)
             => /\ j_electron \in (-1)..(ElectronCount - 1)
                /\ Len(added) <= AcceptanceBound)
    /\ []((pc = "done" /\ Len(nodes) = nbasis) => j_electron = -1)
    /\ [][(OdometerRuns /\ pc \in {"one_test", "two_test"})
             => /\ pc' \in {"one_step", "two_step"}
                /\ \/ /\ Len(added') = Len(added) + 1
                      /\ j_electron' = ElectronCount - 1
                   \/ /\ added' = added
                      /\ j_electron' = j_electron - 1]_vars
    /\ OdometerRuns ~> (pc = "done")

\* a two-spin run over four electrons has finished after several acceptances
C15_Witness ==
    /\ pc = "done"
    /\ TwoSpin
    /\ nocc_up = 2
    /\ nocc_dn = 2
    /\ Len(nodes) = nbasis
    /\ Len(added) >= 3
    /\ j_electron = -1

(***************************************************************************)
(* Further properties of add_seniorities.                                  *)
(***************************************************************************)
\* C17 (as stated): every buffer passed to add_occs has a strictly increasing
\* spin-up row and strictly increasing first nocc_dn spin-down entries, all
\* of them orbitals of the basis.
C17_RowsStrictlyIncreasing ==
    \A i \in DOMAIN added :
        LET up == added[i].occs[1]
            dn == Take(added[i].occs[2], nocc_dn)
        IN /\ StrictlyIncreasing(up)
           /\ StrictlyIncreasing(dn)
           /\ \A k \in DOMAIN up : up[k] \in 0..(nbasis - 1)
           /\ \A k \in DOMAIN dn : dn[k] \in 0..(nbasis - 1)

(***************************************************************************)
(* Properties of solve and solve_cepa0.                                    *)
(***************************************************************************)
\* the call was given an operator, or a Hamiltonian and a wave function
OperatorGiven == nargs \in {1, 2}

\* C14: for an operator with one column solve returns the energies
\* [get_element(0, 0) + ecore] and the coefficients [[1]] without calling the
\* eigensolver, whatever n, c0, ncv, maxiter and tol are.
C14_DimensionOne ==
    (fn = "solve" /\ dim = 1 /\ OperatorGiven
        /\ pc \notin {"solve_args", "solve_dim"})
        => /\ pc = "done"
           /\ err = "none"
           /\ ret = << <<diag[1] + ecore>>, << <<1>> >> >>
           /\ calls = <<>>

\* a call with n = 2, a guess of two entries and a non-zero core energy has
\* returned
C14_Witness ==
    /\ fn = "solve"
    /\ dim = 1
    /\ pc = "done"
    /\ n_eig = 2
    /\ c0 = << <<2, 2>> >>
    /\ ncv /= <<>>
    /\ ecore = 2
    /\ ret[1] = <<diag[1] + 2>>

\* the value the reference entry of the guess is seeded with
SeedValue == IF e0 = <<>> THEN diag[refind + 1] ELSE e0[1]

\* C12: solve_cepa0 returns the energy (x[refind] + seed) + ecore, x being
\* the solver's vector, and a coefficient vector whose entry at refind is
\* exactly 1.
C12_CepaFinalisation ==
    (fn = "solve_cepa0" /\ pc = "done")
        => /\ Len(ret[1]) = 1
           /\ ret[1][1] = <<(result.x[refind + 1] + SeedValue) + ecore, 1>>
           /\ Len(ret[2]) = 1
           /\ Len(ret[2][1]) = dim
           /\ ret[2][1][refind + 1] = <<1, 1>>

\* a call with reference 1, a given e0 and a guess whose reference entry is
\* zero (so that the other entry is not finite) has returned
C12_Witness ==
    /\ fn = "solve_cepa0"
    /\ pc = "done"
    /\ refind = 1
    /\ e0 /= <<>>
    /\ ecore = 2
    /\ ret[2][1][1][2] = 0
    /\ result.x[2] = -1

\* C13 (as stated): a result is returned only when the iterative solver
\* reached the tolerance: solve_cepa0 returns only when the linear solver's
\* status is 0, and a solve whose eigensolver did not converge ends in the
\* convergence error without a result.
C13_NonConvergenceNotReturned ==
    /\ (fn = "solve_cepa0" /\ pc = "done") => result.info = 0
    /\ (fn = "solve" /\ err = "ArpackNoConvergence") => ret = <<>>

\* the iteration limit and the tolerances a recorded solver call was given
IterationLimit(call) ==
    IF call.solver = "lsqr" THEN call.kwargs.iter_lim ELSE call.kwargs.maxiter

Tolerances(call) ==
    IF call.solver = "lsqr"
    THEN {call.kwargs.atol, call.kwargs.btol}
    ELSE {call.kwargs.tol}

\* C19 (as stated): a solve_cepa0 call that was given an operator returns,
\* after one call of lsqr (lstsq) or of lgmres (otherwise) with the caller's
\* maxiter as iteration limit and the caller's tol as tolerance.
C19_SolverDispatch ==
    (fn = "solve_cepa0" /\ OperatorGiven /\ pc \in {"done", "error"})
        => /\ pc = "done"
           /\ Len(ret) = 2
           /\ Len(calls) = 1
           /\ calls[1].solver = (IF lstsq THEN "lsqr" ELSE "lgmres")
           /\ IterationLimit(calls[1]) = maxiter
           /\ Tolerances(calls[1]) = {tol}

=============================================================================
